---- MODULE Spec2Model ----
(***************************************************************************)
(* Model of dplot (src/dplot/dplot.py): the Figure model, Figure.add /     *)
(* Figure.plot, Figure._validate (axis range resolution) and the          *)
(* _LatexOutput emitter behind Figure.get_latex_code, the default          *)
(* arguments of the AxisSetup and Figure constructors, Figure.export with  *)
(* its conversions, and _cvt_latex_to_pdf with the compiler process.       *)
(*                                                                         *)
(* Numbers.  Data values are even integers.  sys.float_info.max is         *)
(* FloatMax, a number above every scaled value of the model, and           *)
(* -sys.float_info.min (about -2.2e-308) is NegFloatMin = -1: a number     *)
(* strictly between every negative data value and 0, as in the program.    *)
(*                                                                         *)
(* None.  An unset axis slot is NoAxis (configured = FALSE); limits = None *)
(* is the empty tuple <<>>, set limits are <<lo, hi>>.                     *)
(***************************************************************************)
EXTENDS Integers, Sequences, FiniteSets

VARIABLES
    axes,           \* Figure.axes: slot -> AxisSetup or NoAxis
    objs,           \* the Data objects constructed so far (index = identity)
    plot_data,      \* Figure.plot_data: sequence of references into objs
    data_counter,   \* Figure._data_counter
    legend_enable,  \* Figure.legend_setup.enable
    op,             \* the operation performed last
    result,         \* how it ended: "none", "ok" or the exception raised
    out,            \* the document get_latex_code returned (<<>> if none)
    entry_axes,     \* Figure.axes at entry of the last get_latex_code call
                    \* (the current axes after any other operation)
    cfg_objs,       \* the GridSetup / TickSetup / LegendSetup objects (index = identity)
    axis_setups,    \* the AxisSetup objects constructed: their grid and tick references
    figures,        \* the Figure objects constructed: their legend_setup reference
    files,          \* the files of the output directory
    tools,          \* the external tools installed (found by shutil.which)
    export_types,   \* the types argument of the last Figure.export call
    export_ret,     \* the tuple the last Figure.export call returned
    conv            \* _cvt_latex_to_pdf in progress: parent, child process and pipe

figureVars == <<axes, objs, plot_data, data_counter, legend_enable, op, result, out, entry_axes>>
defaultVars == <<cfg_objs, axis_setups, figures>>
exportVars == <<files, tools, export_types, export_ret>>
vars == <<axes, objs, plot_data, data_counter, legend_enable, op, result, out, entry_axes,
          cfg_objs, axis_setups, figures, files, tools, export_types, export_ret, conv>>

(***************************************************************************)
(* Bounds and program constants                                            *)
(***************************************************************************)
MaxSeries == 2          \* entries of plot_data under Spec
MaxLayoutSeries == 4    \* entries of plot_data under SpecLayout
MaxHolders == 2         \* AxisSetup objects, and Figure objects, under SpecDefaults
MaxExportSeries == 1    \* entries of plot_data under SpecExport
MaxTypes == 2           \* types given to one Figure.export call under SpecExport
PipeCapacity == 2       \* chunks of output the stdout pipe of a child holds
MaxOutput == 4          \* chunks of output one compiler run writes to its stdout

FloatMax == 1000000     \* sys.float_info.max
NegFloatMin == -1       \* -sys.float_info.min
FmtDigits == 20         \* fraction digits of f'{x:.20e}'
OverscaleExp == 10      \* overscale_limit = 1e10 = 10^OverscaleExp

XAxis == <<"t", "b">>
YAxis == <<"l", "r">>
\* insertion order of the keys of Figure.axes
AxisKeys == XAxis \o YAxis
Slots == {AxisKeys[i] : i \in 1..Len(AxisKeys)}

Abs(x) == IF x < 0 THEN -x ELSE x
PyMax(a, b) == IF b > a THEN b ELSE a
PyMin(a, b) == IF b < a THEN b ELSE a
NpMax(s) == CHOOSE v \in {s[i] : i \in 1..Len(s)} : \A j \in 1..Len(s) : s[j] <= v
NpMin(s) == CHOOSE v \in {s[i] : i \in 1..Len(s)} : \A j \in 1..Len(s) : s[j] >= v

(***************************************************************************)
(* AxisSetup and Data                                                      *)
(***************************************************************************)
NoLimits == <<>>
AxisSetup(scale, limits, grid_major, tick_enable) ==
    [configured |-> TRUE, scale |-> scale, limits |-> limits,
     grid_major |-> grid_major, tick_enable |-> tick_enable, log |-> FALSE]
\* AxisSetup(..., log=True)
WithLog(axis_setup) == [axis_setup EXCEPT !.log = TRUE]
NoAxis ==
    [configured |-> FALSE, scale |-> 1, limits |-> NoLimits,
     grid_major |-> FALSE, tick_enable |-> TRUE, log |-> FALSE]

\* the Data objects of plot_data, in list order
Series(heap, pd) == [i \in 1..Len(pd) |-> heap[pd[i]]]

(***************************************************************************)
(* Figure._validate                                                        *)
(***************************************************************************)
\* the assertions of the first loop, for one Data
DataOk(ax_map, data) ==
    /\ ax_map[data.ax].configured
    /\ ax_map[data.ay].configured
    /\ Len(data.dx) > 0
    /\ Len(data.dy) > 0

\* the inner loop over plot_data: running (mn, mx) for one axis
RECURSIVE LimitsLoop(_, _, _, _, _, _)
LimitsLoop(axis, scale, series, i, mn, mx) ==
    IF i > Len(series) THEN <<mn, mx>>
    ELSE LET data == series[i]
             mx1 == IF data.ax = axis THEN PyMax(mx, scale * NpMax(data.dx)) ELSE mx
             mn1 == IF data.ax = axis THEN PyMin(mn, scale * NpMin(data.dx)) ELSE mn
             mx2 == IF data.ay = axis THEN PyMax(mx1, scale * NpMax(data.dy)) ELSE mx1
             mn2 == IF data.ay = axis THEN PyMin(mn1, scale * NpMin(data.dy)) ELSE mn1
         IN LimitsLoop(axis, scale, series, i + 1, mn2, mx2)

\* the running (mn, mx) started from (0, 0)
AutoLimitsFromZero(axis, axis_setup, series) ==
    LimitsLoop(axis, axis_setup.scale, series, 1, 0, 0)
AutoLimits(axis, axis_setup, series) ==
    LimitsLoop(axis, axis_setup.scale, series, 1, FloatMax, NegFloatMin)

\* whether the loop over the axes fills the limits of this axis
FillsAlways(axis_setup) == axis_setup.configured
Fills(axis_setup) == axis_setup.configured /\ axis_setup.limits = NoLimits

\* the loop over self.axes.keys(), from the k-th key on
RECURSIVE AxisLoop(_, _, _)
AxisLoop(ax_map, series, k) ==
    IF k > Len(AxisKeys) THEN [axes |-> ax_map, result |-> "ok"]
    ELSE LET axis == AxisKeys[k]
             axis_setup == ax_map[axis]
         IN IF Fills(axis_setup)
            THEN LET filled == [ax_map EXCEPT ![axis].limits = AutoLimits(axis, axis_setup, series)]
                 IN IF axis_setup.grid_major /\ ~axis_setup.tick_enable
                    THEN [axes |-> filled, result |-> "RuntimeError"]
                    ELSE AxisLoop(filled, series, k + 1)
            ELSE AxisLoop(ax_map, series, k + 1)

\* _validate with the check for unset slots made after the loop over the axes
ValidateSlotsLast(ax_map, series) ==
    IF \E i \in 1..Len(series) : Len(series[i].dx) = 0 \/ Len(series[i].dy) = 0
    THEN [axes |-> ax_map, result |-> "AssertionError"]
    ELSE LET resolved == AxisLoop(ax_map, series, 1)
         IN IF \E i \in 1..Len(series) : ~DataOk(ax_map, series[i])
            THEN [axes |-> resolved.axes, result |-> "AssertionError"]
            ELSE resolved
Validate(ax_map, series) ==
    IF \E i \in 1..Len(series) : ~DataOk(ax_map, series[i])
    THEN [axes |-> ax_map, result |-> "AssertionError"]
    ELSE AxisLoop(ax_map, series, 1)

(***************************************************************************)
(* _LatexOutput: number formatting                                         *)
(***************************************************************************)
RECURSIVE Pow10(_)
Pow10(k) == IF k = 0 THEN 1 ELSE 10 * Pow10(k - 1)
\* decimal exponent of a >= 0: the number of its digits, minus one
RECURSIVE Exp10(_)
Exp10(a) == IF a < 10 THEN 0 ELSE 1 + Exp10(a \div 10)

\* f'{x:.0e}'-like formatting that keeps the leading digit only
FmtFltLeadingDigit(x) ==
    LET a == Abs(x)
        e == Exp10(a)
    IN [neg |-> x < 0,
        digits |-> [i \in 1..(FmtDigits + 1) |-> IF i = 1 THEN a \div Pow10(e) ELSE 0],
        exp |-> e]
\* f'{x:.20e}': sign, one digit before the point, FmtDigits after it, exponent
FmtFlt(x) ==
    LET a == Abs(x)
        e == Exp10(a)
    IN [neg |-> x < 0,
        digits |-> [i \in 1..(FmtDigits + 1) |->
                      IF i - 1 <= e THEN (a \div Pow10(e - (i - 1))) % 10 ELSE 0],
        exp |-> e]

(***************************************************************************)
(* _LatexOutput.__get_y_domain.  A limit times or over the overscale limit *)
(* is the pair [m, e] that stands for m * 10^e.                            *)
(***************************************************************************)
NoDomain == <<>>
TimesOverscale(x) == [m |-> x, e |-> OverscaleExp]
OverOverscale(x) == [m |-> x, e |-> -OverscaleExp]
\* the domain with the two scalings exchanged
GetYDomainNarrowed(asy) ==
    IF asy.limits = NoLimits THEN NoDomain
    ELSE IF asy.log THEN NoDomain
    ELSE LET mn == IF asy.limits[1] > 0 THEN TimesOverscale(asy.limits[1])
                   ELSE OverOverscale(asy.limits[1])
             mx == IF asy.limits[2] > 0 THEN OverOverscale(asy.limits[2])
                   ELSE TimesOverscale(asy.limits[2])
         IN <<mn, mx>>
GetYDomain(asy) ==
    IF asy.limits = NoLimits THEN NoDomain
    ELSE IF asy.log THEN NoDomain
    ELSE LET mn == IF asy.limits[1] > 0 THEN OverOverscale(asy.limits[1])
                   ELSE TimesOverscale(asy.limits[1])
             mx == IF asy.limits[2] > 0 THEN TimesOverscale(asy.limits[2])
                   ELSE OverOverscale(asy.limits[2])
         IN <<mn, mx>>
\* f'{x:.20e}' of x = m * 10^e: the digits of m, its exponent moved by e
FmtScaled(x) ==
    [FmtFlt(x.m) EXCEPT !.exp = IF x.m = 0 THEN 0 ELSE @ + x.e]

(***************************************************************************)
(* _LatexOutput: the blocks of the document.  Every item of the document   *)
(* carries the block (blk) it belongs to and its kind within the block;    *)
(* "head" is the comment banner a block starts with.                       *)
(***************************************************************************)
RECURSIVE Concat(_)
Concat(ss) == IF ss = <<>> THEN <<>> ELSE Head(ss) \o Concat(Tail(ss))

CreateDocBegin == <<[blk |-> "doc_begin", kind |-> "head"]>>
CreateDocEnd == <<[blk |-> "doc_end", kind |-> "head"]>>

\* one inset per key of keys
AxisInsetsAll(blk, ax_map, keys) ==
    [i \in 1..Len(keys) |-> [blk |-> blk, kind |-> "axis", axis |-> keys[i]]]
\* one inset per key of keys whose AxisSetup is not None
AxisInsets(blk, ax_map, keys) ==
    LET active == SelectSeq(keys, LAMBDA a : ax_map[a].configured)
    IN [i \in 1..Len(active) |-> [blk |-> blk, kind |-> "axis", axis |-> active[i]]]

CreatePadding(ax_map) ==
    <<[blk |-> "padding", kind |-> "head"]>> \o AxisInsets("padding", ax_map, AxisKeys)

\* the loop of __create_background with its background_color_applied flag
RECURSIVE BackgroundLoop(_, _, _)
BackgroundLoop(ax_map, k, background_color_applied) ==
    IF k > Len(AxisKeys) THEN <<>>
    ELSE IF ~ax_map[AxisKeys[k]].configured
         THEN BackgroundLoop(ax_map, k + 1, background_color_applied)
         ELSE <<[blk |-> "background", kind |-> "axis", axis |-> AxisKeys[k],
                 fill |-> ~background_color_applied]>>
              \o BackgroundLoop(ax_map, k + 1, TRUE)

CreateBackground(ax_map) ==
    <<[blk |-> "background", kind |-> "head"]>> \o BackgroundLoop(ax_map, 1, FALSE)

CreateOverlay(ax_map) ==
    <<[blk |-> "overlay", kind |-> "head"]>> \o AxisInsets("overlay", ax_map, AxisKeys)

\* \begin{axis}[..., ymin=, ymax=, ..., ymode=, ...]
CreatePlotBegin(ax_map, ax, ay) ==
    LET asy == ax_map[ay]
    IN [blk |-> "plot_group", kind |-> "begin", ax |-> ax, ay |-> ay,
        ymin |-> FmtFlt(asy.limits[1]), ymax |-> FmtFlt(asy.limits[2]),
        ymode |-> IF asy.log THEN "log" ELSE "linear"]

\* the plot with the columns of its rows exchanged
CreatePlotContentSwapped(ax_map, ax, ay, data) ==
    LET n == IF Len(data.dx) < Len(data.dy) THEN Len(data.dx) ELSE Len(data.dy)
        y_domain == GetYDomain(ax_map[ay])
    IN [blk |-> "plot_group", kind |-> "addplot", ax |-> ax, ay |-> ay,
        domain |-> IF y_domain # NoDomain
                   THEN <<FmtScaled(y_domain[1]), FmtScaled(y_domain[2])>>
                   ELSE NoDomain,
        rows |-> [i \in 1..n |-> <<FmtFlt(data.dy[i]), FmtFlt(data.dx[i])>>],
        label |-> data.id]
\* \addplot [..., restrict y to domain={mn:mx}] table {rows}; \label{dplot:<id>}
CreatePlotContent(ax_map, ax, ay, data) ==
    LET n == IF Len(data.dx) < Len(data.dy) THEN Len(data.dx) ELSE Len(data.dy)
        y_domain == GetYDomain(ax_map[ay])
    IN [blk |-> "plot_group", kind |-> "addplot", ax |-> ax, ay |-> ay,
        domain |-> IF y_domain # NoDomain
                   THEN <<FmtScaled(y_domain[1]), FmtScaled(y_domain[2])>>
                   ELSE NoDomain,
        rows |-> [i \in 1..n |-> <<FmtFlt(data.dx[i]), FmtFlt(data.dy[i])>>],
        label |-> data.id]

\* the selection of the Data a plot group holds
Selected(ax, ay, data) == data.ax = ax /\ data.ay = ay

CreatePlotGroup(ax_map, ax, ay, series) ==
    LET data_selected == SelectSeq(series, LAMBDA data : Selected(ax, ay, data))
    IN <<[blk |-> "plot_group", kind |-> "head", ax |-> ax, ay |-> ay]>>
       \o (IF Len(data_selected) > 0
           THEN <<CreatePlotBegin(ax_map, ax, ay)>>
                \o [i \in 1..Len(data_selected) |->
                      CreatePlotContent(ax_map, ax, ay, data_selected[i])]
                \o <<[blk |-> "plot_group", kind |-> "end", ax |-> ax, ay |-> ay]>>
           ELSE <<>>)

CreateLegend(series) ==
    <<[blk |-> "legend", kind |-> "head"], [blk |-> "legend", kind |-> "begin"]>>
    \o [i \in 1..Len(series) |-> [blk |-> "legend", kind |-> "entry", ref |-> series[i].id]]
    \o <<[blk |-> "legend", kind |-> "end"]>>

\* for ax in XAxis: for ay in YAxis: __create_plot_group(ax, ay)
PlotGroups(ax_map, series) ==
    Concat([k \in 1..(Len(XAxis) * Len(YAxis)) |->
              CreatePlotGroup(ax_map, XAxis[((k - 1) \div Len(YAxis)) + 1],
                              YAxis[((k - 1) % Len(YAxis)) + 1], series)])

ExecOverlayFirst(ax_map, series, legend) ==
    CreateDocBegin \o CreatePadding(ax_map) \o CreateBackground(ax_map)
    \o CreateOverlay(ax_map) \o PlotGroups(ax_map, series)
    \o (IF legend THEN CreateLegend(series) ELSE <<>>)
    \o CreateDocEnd
Exec(ax_map, series, legend) ==
    CreateDocBegin \o CreatePadding(ax_map) \o CreateBackground(ax_map)
    \o PlotGroups(ax_map, series) \o CreateOverlay(ax_map)
    \o (IF legend THEN CreateLegend(series) ELSE <<>>)
    \o CreateDocEnd

(***************************************************************************)
(* Axis pairing / visibility resolver (specification section 4.3).  The    *)
(* source declares _LatexOutput.AxisMode and holds no resolver; this is    *)
(* the algorithm as the specification words it.                            *)
(***************************************************************************)
\* the four (x-slot, y-slot) pairs, sorted by pair key
SortedPairs == <<<<"b", "l">>, <<"b", "r">>, <<"t", "l">>, <<"t", "r">>>>
InPair(data, pair) == data.ax = pair[1] /\ data.ay = pair[2]
\* the series grouped by pair, groups in key order, insertion order within
SortedByPair(series) ==
    Concat([k \in 1..Len(SortedPairs) |->
              SelectSeq(series, LAMBDA data : InPair(data, SortedPairs[k]))])
UsesEdge(data, edge) == data.ax = edge \/ data.ay = edge
\* index of the first series of the ordering that uses the edge, 0 if none
FirstUser(sorted, edge) ==
    LET users == {i \in 1..Len(sorted) : UsesEdge(sorted[i], edge)}
    IN IF users = {} THEN 0 ELSE CHOOSE i \in users : \A j \in users : i <= j
\* the pair's pointer to the first usage of the edge, 0 if it has none
PairFirstUser(sorted, pair, edge) ==
    IF (edge = pair[1] \/ edge = pair[2]) /\ \E i \in 1..Len(sorted) : InPair(sorted[i], pair)
    THEN FirstUser(sorted, edge)
    ELSE 0
Initialises(sorted, pair, edge) ==
    /\ PairFirstUser(sorted, pair, edge) # 0
    /\ PairFirstUser(sorted, pair, edge) = FirstUser(sorted, edge)
Initialisers(sorted, edge) ==
    {k \in 1..Len(SortedPairs) : Initialises(sorted, SortedPairs[k], edge)}

\* the resolver without the downgrade of shared edges
AxisModeNeverSingle(series, pair, edge) ==
    IF Initialises(SortedByPair(series), pair, edge) THEN "BOTH" ELSE "HIDE"
AxisMode(series, pair, edge) ==
    LET sorted == SortedByPair(series)
    IN IF ~Initialises(sorted, pair, edge) THEN "HIDE"
       ELSE IF Cardinality(Initialisers(sorted, edge)) > 1 THEN "SINGLE"
       ELSE "BOTH"

(***************************************************************************)
(* Operations                                                              *)
(***************************************************************************)
InitFigure(legend) ==
    /\ axes = [s \in Slots |-> NoAxis]
    /\ objs = <<>>
    /\ plot_data = <<>>
    /\ data_counter = 0
    /\ legend_enable = legend
    /\ op = "init"
    /\ result = "none"
    /\ out = <<>>
    /\ entry_axes = axes

\* fig.axes[axis] = AxisSetup(...)
SetAxis(axis, axis_setup) ==
    /\ axes' = [axes EXCEPT ![axis] = axis_setup]
    /\ op' = "set_axis"
    /\ result' = "none"
    /\ out' = <<>>
    /\ entry_axes' = axes'
    /\ UNCHANGED <<objs, plot_data, data_counter, legend_enable, defaultVars, exportVars, conv>>

\* Figure.add(data), data an object constructed earlier
Add(ref) ==
    /\ objs' = [objs EXCEPT ![ref].id = data_counter]
    /\ data_counter' = data_counter + 1
    /\ plot_data' = Append(plot_data, ref)
    /\ op' = "add"
    /\ result' = "none"
    /\ out' = <<>>
    /\ entry_axes' = axes
    /\ UNCHANGED <<axes, legend_enable, defaultVars, exportVars, conv>>

\* Figure.plot with a Data constructor that does not compare the lengths
PlotUnchecked(ax, ay, dx, dy) ==
    /\ op' = "plot"
    /\ out' = <<>>
    /\ entry_axes' = axes
    /\ objs' = Append(objs, [ax |-> ax, ay |-> ay, dx |-> dx, dy |-> dy, id |-> data_counter])
    /\ data_counter' = data_counter + 1
    /\ plot_data' = Append(plot_data, Len(objs) + 1)
    /\ result' = "none"
    /\ UNCHANGED <<axes, legend_enable, defaultVars, exportVars, conv>>
\* Figure.plot(ax, ay, dx, dy): Data(...) and then Figure.add
Plot(ax, ay, dx, dy) ==
    /\ op' = "plot"
    /\ out' = <<>>
    /\ entry_axes' = axes
    /\ IF Len(dx) # Len(dy)
       THEN /\ result' = "AssertionError"
            /\ UNCHANGED <<objs, plot_data, data_counter>>
       ELSE /\ objs' = Append(objs, [ax |-> ax, ay |-> ay, dx |-> dx, dy |-> dy,
                                     id |-> data_counter])
            /\ data_counter' = data_counter + 1
            /\ plot_data' = Append(plot_data, Len(objs) + 1)
            /\ result' = "none"
    /\ UNCHANGED <<axes, legend_enable, defaultVars, exportVars, conv>>

\* Figure.get_latex_code: _validate, then _LatexOutput(self).exec()
GetLatexCode ==
    LET series == Series(objs, plot_data)
        v == Validate(axes, series)
    IN /\ axes' = v.axes
       /\ result' = v.result
       /\ out' = IF v.result = "ok" THEN Exec(v.axes, series, legend_enable) ELSE <<>>
       /\ op' = "get_latex_code"
       /\ entry_axes' = axes
       /\ UNCHANGED <<objs, plot_data, data_counter, legend_enable, defaultVars, exportVars, conv>>

(***************************************************************************)
(* Default arguments of the constructors.  `grid: GridSetup = GridSetup()`, *)
(* `tick: TickSetup = TickSetup()` and `legend_setup: LegendSetup =         *)
(* LegendSetup()` are evaluated once, when the def statement is executed:   *)
(* the three objects exist before any constructor call, and a call without *)
(* the argument stores a reference to them.                                *)
(***************************************************************************)
\* GridSetup(): major_enable = False; TickSetup(): enable = True; LegendSetup(): enable = True
NewGridSetup == [cls |-> "GridSetup", enable |-> FALSE]
NewTickSetup == [cls |-> "TickSetup", enable |-> TRUE]
NewLegendSetup == [cls |-> "LegendSetup", enable |-> TRUE]
DefaultObjects == <<NewGridSetup, NewTickSetup, NewLegendSetup>>
\* the references the three def statements hold
DefaultRef(cls) == CHOOSE ref \in 1..Len(DefaultObjects) : DefaultObjects[ref].cls = cls

NoDefaultsUsed ==
    /\ cfg_objs = DefaultObjects
    /\ axis_setups = <<>>
    /\ figures = <<>>

\* AxisSetup() / AxisSetup(grid=GridSetup(), tick=TickSetup()): with an
\* explicit argument the caller constructs a new object for this call
NewAxisSetup(explicit_grid, explicit_tick) ==
    LET made == (IF explicit_grid THEN <<NewGridSetup>> ELSE <<>>)
                \o (IF explicit_tick THEN <<NewTickSetup>> ELSE <<>>)
        grid == IF explicit_grid THEN Len(cfg_objs) + 1 ELSE DefaultRef("GridSetup")
        tick == IF explicit_tick THEN Len(cfg_objs) + Len(made) ELSE DefaultRef("TickSetup")
    IN /\ cfg_objs' = cfg_objs \o made
       /\ axis_setups' = Append(axis_setups, [grid |-> grid, tick |-> tick])
       /\ op' = "new_axis_setup"
       /\ result' = "none"
       /\ UNCHANGED <<figures, axes, objs, plot_data, data_counter, legend_enable, out,
                      entry_axes, exportVars, conv>>

\* Figure(name) / Figure(name, legend_setup=LegendSetup())
NewFigure(explicit_legend) ==
    /\ cfg_objs' = IF explicit_legend THEN Append(cfg_objs, NewLegendSetup) ELSE cfg_objs
    /\ figures' = Append(figures, [legend_setup |-> IF explicit_legend
                                                    THEN Len(cfg_objs) + 1
                                                    ELSE DefaultRef("LegendSetup")])
    /\ op' = "new_figure"
    /\ result' = "none"
    /\ UNCHANGED <<axis_setups, axes, objs, plot_data, data_counter, legend_enable, out,
                   entry_axes, exportVars, conv>>

\* <holder>.<attribute>.<field> = value, the holder's object being cfg_objs[ref]:
\* axis_setup.grid.major_enable, axis_setup.tick.enable, fig.legend_setup.enable
SetEnable(ref, value) ==
    /\ cfg_objs' = [cfg_objs EXCEPT ![ref].enable = value]
    /\ op' = "set_enable"
    /\ result' = "none"
    /\ UNCHANGED <<axis_setups, figures, axes, objs, plot_data, data_counter, legend_enable,
                   out, entry_axes, exportVars, conv>>

(***************************************************************************)
(* Figure.export.  files holds the artifacts of the output directory,      *)
(* named by their suffix, and the temporary working directory while it     *)
(* exists.  What an external tool does when it is run is an input of the   *)
(* call: pdflatex writes the PDF or not, pdf2svg writes the temporary svg  *)
(* or not, scour writes the svg or not; their exit status is not read.     *)
(***************************************************************************)
ExportTypes == <<"LATEX", "PDF", "SVG">>
\* type_map: the artifact of a type
TypeMap(t) == CASE t = "LATEX" -> ".tex" [] t = "PDF" -> ".pdf" [] t = "SVG" -> ".svg"
SvgTmp == ".svg.tmp.svg"
TmpDir == "tmp_dir"
Tools == {"pdflatex", "pdf2svg", "scour"}

NoExport ==
    /\ files = {}
    /\ tools = {}
    /\ export_types = <<>>
    /\ export_ret = <<>>

TypeSet(types) == {types[i] : i \in 1..Len(types)}
RequiredTypes(types) ==
    LET with_pdf == TypeSet(types) \cup (IF "SVG" \in TypeSet(types) THEN {"PDF"} ELSE {})
    IN with_pdf \cup (IF "PDF" \in with_pdf THEN {"LATEX"} ELSE {})

\* _cvt_latex_to_pdf, both compiler runs returning
CvtLatexToPdf(fs, installed, compiled) ==
    IF "pdflatex" \notin installed
    THEN [files |-> fs, result |-> "FileNotFoundError"]
    ELSE LET in_tmp == fs \cup {TmpDir}
         IN IF compiled
            THEN [files |-> (in_tmp \cup {TypeMap("PDF")}) \ {TmpDir}, result |-> "ok"]
            ELSE [files |-> in_tmp \ {TmpDir}, result |-> "RuntimeError"]

\* _cvt_pdf_to_svg
CvtPdfToSvg(fs, installed, converted, optimized) ==
    IF "pdf2svg" \notin installed
    THEN [files |-> fs, result |-> "FileNotFoundError"]
    ELSE LET fs1 == IF converted THEN fs \cup {SvgTmp} ELSE fs
         IN IF "scour" \notin installed
            THEN \* os.rename(path_svg_tmp, path_svg)
                 IF SvgTmp \in fs1
                 THEN [files |-> (fs1 \ {SvgTmp}) \cup {TypeMap("SVG")}, result |-> "ok"]
                 ELSE [files |-> fs1, result |-> "FileNotFoundError"]
            ELSE \* scour -i path_svg_tmp -o path_svg; os.remove(path_svg_tmp)
                 LET fs2 == IF optimized /\ SvgTmp \in fs1
                            THEN fs1 \cup {TypeMap("SVG")} ELSE fs1
                 IN IF SvgTmp \in fs2
                    THEN [files |-> fs2 \ {SvgTmp}, result |-> "ok"]
                    ELSE [files |-> fs2, result |-> "FileNotFoundError"]

\* the removal of the artifacts of the types that are not in types
RemoveUnrequested(fs, types) ==
    fs \ {TypeMap(ExportTypes[i]) : i \in {j \in 1..Len(ExportTypes) :
                                              ExportTypes[j] \notin TypeSet(types)}}

\* the conversions of export, from the files and the result of validation on:
\* the files and the result when export returns or raises
ExportStages(fs, validated, required, installed, compiled, converted, optimized) ==
    LET latex == IF "LATEX" \in required
                 THEN [files |-> fs \cup {TypeMap("LATEX")}, result |-> validated]
                 ELSE [files |-> fs, result |-> "ok"]
    IN IF latex.result # "ok" \/ "PDF" \notin required THEN latex
       ELSE LET pdf == CvtLatexToPdf(latex.files, installed, compiled)
            IN IF pdf.result # "ok" \/ "SVG" \notin required THEN pdf
               ELSE CvtPdfToSvg(pdf.files, installed, converted, optimized)

\* Figure.export(path_out_dir, *types)
Export(types, compiled, converted, optimized) ==
    /\ op' = "export"
    /\ export_types' = types
    /\ out' = <<>>
    /\ entry_axes' = axes
    /\ IF Len(types) = 0
       THEN /\ result' = "RuntimeError"
            /\ export_ret' = <<>>
            /\ UNCHANGED <<files, axes>>
       ELSE \E v \in {Validate(axes, Series(objs, plot_data))} :
            \E done \in {ExportStages(files, v.result, RequiredTypes(types), tools,
                                       compiled, converted, optimized)} :
               /\ result' = done.result
               /\ axes' = IF "LATEX" \in RequiredTypes(types) THEN v.axes ELSE axes
               /\ files' = IF done.result = "ok"
                           THEN RemoveUnrequested(done.files, types) ELSE done.files
               /\ export_ret' = IF done.result = "ok"
                                THEN [i \in 1..Len(types) |-> TypeMap(types[i])] ELSE <<>>
    /\ UNCHANGED <<objs, plot_data, data_counter, legend_enable, tools, defaultVars, conv>>

(***************************************************************************)
(* Figure._cvt_latex_to_pdf as the parent process, the compiler process    *)
(* it starts with Popen(..., stdout=PIPE) and the pipe between them.  The  *)
(* compiler writes its output chunk by chunk and exits once all of it is   *)
(* written; a write to a full pipe blocks until the parent has read.       *)
(*   pc       where the parent is: "idle", "read" (for line in             *)
(*            proc.stdout), "wait" (proc.wait()), "check", "done"          *)
(*   run      the compiler run in progress, 1 or 2                         *)
(*   child    "none", "running" or "exited"                                *)
(*   to_write chunks the child has still to write                          *)
(*   pipe     chunks in the pipe of the child of this run                  *)
(*   tmp_pdf  whether the PDF exists in the temporary directory            *)
(***************************************************************************)
IdleConv ==
    [pc |-> "idle", quiet |-> TRUE, run |-> 0, child |-> "none", to_write |-> 0,
     pipe |-> 0, tmp_pdf |-> FALSE, result |-> "none"]
NoConversion == conv = IdleConv

\* subprocess.Popen(cmd, ..., stdout=subprocess.PIPE), then the parent's next statement
Popen(c, run, output) ==
    [c EXCEPT !.run = run, !.child = "running", !.to_write = output, !.pipe = 0,
              !.pc = IF c.quiet THEN "wait" ELSE "read"]

\* the call, up to the first Popen
StartConversion(quiet, output) ==
    /\ conv.pc = "idle"
    /\ conv' = IF "pdflatex" \notin tools
               THEN [conv EXCEPT !.quiet = quiet, !.pc = "done", !.result = "FileNotFoundError"]
               ELSE Popen([conv EXCEPT !.quiet = quiet], 1, output)
    /\ UNCHANGED <<figureVars, defaultVars, exportVars>>

\* the compiler writes a chunk to its stdout
ChildWrite ==
    /\ conv.child = "running"
    /\ conv.to_write > 0
    /\ conv.pipe < PipeCapacity
    /\ conv' = [conv EXCEPT !.to_write = @ - 1, !.pipe = @ + 1]
    /\ UNCHANGED <<figureVars, defaultVars, exportVars>>

\* the compiler exits, having written the PDF or not
ChildExit(wrote_pdf) ==
    /\ conv.child = "running"
    /\ conv.to_write = 0
    /\ conv' = [conv EXCEPT !.child = "exited", !.tmp_pdf = @ \/ wrote_pdf]
    /\ UNCHANGED <<figureVars, defaultVars, exportVars>>

\* for line in proc.stdout: print(...)
ParentRead ==
    /\ conv.pc = "read"
    /\ conv.pipe > 0
    /\ conv' = [conv EXCEPT !.pipe = @ - 1]
    /\ UNCHANGED <<figureVars, defaultVars, exportVars>>

\* the loop over proc.stdout ends at end of file: the pipe is empty and closed
ParentReadEof ==
    /\ conv.pc = "read"
    /\ conv.pipe = 0
    /\ conv.child = "exited"
    /\ conv' = [conv EXCEPT !.pc = "wait"]
    /\ UNCHANGED <<figureVars, defaultVars, exportVars>>

\* proc.wait() returns; after the first run the second Popen follows
ParentWait(output) ==
    /\ conv.pc = "wait"
    /\ conv.child = "exited"
    /\ conv' = IF conv.run = 1 THEN Popen(conv, 2, output) ELSE [conv EXCEPT !.pc = "check"]
    /\ UNCHANGED <<figureVars, defaultVars, exportVars>>

\* shutil.copy and rmtree, or rmtree and raise RuntimeError('compilation failed')
FinishConversion ==
    /\ conv.pc = "check"
    /\ conv' = [conv EXCEPT !.pc = "done",
                            !.result = IF conv.tmp_pdf THEN "ok" ELSE "RuntimeError"]
    /\ UNCHANGED <<figureVars, defaultVars, exportVars>>

(***************************************************************************)
(* Spec: validation and range resolution.  A figure with the default       *)
(* legend setup whose caller uses the slots b and l, with at most          *)
(* MaxSeries list entries.                                                 *)
(***************************************************************************)
ExplicitLimits == <<-2, 2>>
AxisChoices ==
    { AxisSetup(1, NoLimits, FALSE, TRUE),
      AxisSetup(2, NoLimits, FALSE, TRUE),
      AxisSetup(-1, NoLimits, FALSE, TRUE),
      AxisSetup(1, ExplicitLimits, FALSE, TRUE),
      AxisSetup(1, NoLimits, TRUE, FALSE),
      AxisSetup(1, ExplicitLimits, TRUE, FALSE),
      WithLog(AxisSetup(1, NoLimits, FALSE, TRUE)) }
\* (dx, dy) of the series plotted
Points ==
    { <<<<0, 10>>, <<6, 20>>>>,
      <<<<-4, -2>>, <<-4, -2>>>>,
      <<<<>>, <<>>>>,
      <<<<0>>, <<>>>> }
UsedSlots == {"b", "l"}

Init == InitFigure(TRUE) /\ NoDefaultsUsed /\ NoExport /\ NoConversion

Next ==
    \/ \E axis \in UsedSlots, axis_setup \in AxisChoices :
          SetAxis(axis, axis_setup)
    \/ \E ay \in UsedSlots \ {"b"}, p \in Points :
          /\ Len(plot_data) < MaxSeries
          /\ Plot("b", ay, p[1], p[2])
    \/ \E ref \in 1..Len(objs) :
          /\ Len(plot_data) < MaxSeries
          /\ Add(ref)
    \/ GetLatexCode

Spec == Init /\ [][Next]_vars

(***************************************************************************)
(* SpecLayout: the emitted document.  A caller that configures axes, then  *)
(* adds series on any of the four pairs (at most MaxLayoutSeries list      *)
(* entries), then compiles; the legend is enabled or not.                  *)
(***************************************************************************)
LayoutAxisChoices == { AxisSetup(1, NoLimits, FALSE, TRUE) }
LayoutPoints == { <<<<-2, 12>>, <<6, 20>>>> }

InitLayout ==
    /\ \E legend \in BOOLEAN : InitFigure(legend)
    /\ NoDefaultsUsed /\ NoExport /\ NoConversion

NextLayout ==
    \/ \E axis \in Slots, axis_setup \in LayoutAxisChoices :
          /\ op \in {"init", "set_axis"}
          /\ SetAxis(axis, axis_setup)
    \/ \E i \in 1..Len(XAxis), j \in 1..Len(YAxis), p \in LayoutPoints :
          /\ op # "get_latex_code"
          /\ Len(plot_data) < MaxLayoutSeries
          /\ Plot(XAxis[i], YAxis[j], p[1], p[2])
    \/ \E ref \in 1..Len(objs) :
          /\ op # "get_latex_code"
          /\ Len(plot_data) < MaxLayoutSeries
          /\ Add(ref)
    \/ GetLatexCode

SpecLayout == InitLayout /\ [][NextLayout]_vars

(***************************************************************************)
(* SpecPairing: the series lists the pairing resolver is applied to: any   *)
(* sequence of Figure.plot and Figure.add calls over the four pairs, with  *)
(* at most MaxLayoutSeries list entries.                                   *)
(***************************************************************************)
NextPairing ==
    \/ \E i \in 1..Len(XAxis), j \in 1..Len(YAxis), p \in LayoutPoints :
          /\ Len(plot_data) < MaxLayoutSeries
          /\ Plot(XAxis[i], YAxis[j], p[1], p[2])
    \/ \E ref \in 1..Len(objs) :
          /\ Len(plot_data) < MaxLayoutSeries
          /\ Add(ref)

InitPairing == InitFigure(TRUE) /\ NoDefaultsUsed /\ NoExport /\ NoConversion
SpecPairing == InitPairing /\ [][NextPairing]_vars

(***************************************************************************)
(* SpecDefaults: a caller that constructs at most MaxHolders AxisSetup and *)
(* MaxHolders Figure objects, each with or without explicit grid / tick /  *)
(* legend_setup objects, and assigns to fields of their setups.            *)
(***************************************************************************)
InitDefaults == InitFigure(TRUE) /\ NoDefaultsUsed /\ NoExport /\ NoConversion

NextDefaults ==
    \/ \E explicit_grid, explicit_tick \in BOOLEAN :
          /\ Len(axis_setups) < MaxHolders
          /\ NewAxisSetup(explicit_grid, explicit_tick)
    \/ \E explicit_legend \in BOOLEAN :
          /\ Len(figures) < MaxHolders
          /\ NewFigure(explicit_legend)
    \/ \E a \in 1..Len(axis_setups), value \in BOOLEAN :
          SetEnable(axis_setups[a].grid, value)
    \/ \E a \in 1..Len(axis_setups), value \in BOOLEAN :
          SetEnable(axis_setups[a].tick, value)
    \/ \E f \in 1..Len(figures), value \in BOOLEAN :
          SetEnable(figures[f].legend_setup, value)

SpecDefaults == InitDefaults /\ [][NextDefaults]_vars

(***************************************************************************)
(* SpecExport: a caller that configures the slots b and l, plots at most   *)
(* MaxExportSeries series and exports with at most MaxTypes types per      *)
(* call, into an output directory that is empty at first, on a machine     *)
(* with any set of the tools installed.                                    *)
(***************************************************************************)
RECURSIVE TypeLists(_)
TypeLists(n) ==
    IF n = 0 THEN {<<>>}
    ELSE TypeLists(n - 1) \cup
         {Append(types, t) : types \in {l \in TypeLists(n - 1) : Len(l) = n - 1},
                             t \in TypeSet(ExportTypes)}

InitExport ==
    /\ InitFigure(TRUE) /\ NoDefaultsUsed /\ NoConversion
    /\ files = {}
    /\ tools \in SUBSET Tools
    /\ export_types = <<>>
    /\ export_ret = <<>>

NextExport ==
    \/ \E axis \in UsedSlots, axis_setup \in LayoutAxisChoices :
          /\ op \in {"init", "set_axis"}
          /\ SetAxis(axis, axis_setup)
    \/ \E p \in LayoutPoints :
          /\ Len(plot_data) < MaxExportSeries
          /\ Plot("b", "l", p[1], p[2])
    \/ \E types \in TypeLists(MaxTypes), compiled, converted, optimized \in BOOLEAN :
          Export(types, compiled, converted, optimized)

SpecExport == InitExport /\ [][NextExport]_vars

(***************************************************************************)
(* SpecPdf: one _cvt_latex_to_pdf call, quiet or not, with pdflatex        *)
(* installed or not, each compiler run writing at most MaxOutput chunks.   *)
(***************************************************************************)
InitPdf ==
    /\ InitFigure(TRUE) /\ NoDefaultsUsed /\ NoConversion
    /\ files = {}
    /\ tools \in {{}, {"pdflatex"}}
    /\ export_types = <<>>
    /\ export_ret = <<>>

NextPdf ==
    \/ \E quiet \in BOOLEAN, output \in 0..MaxOutput : StartConversion(quiet, output)
    \/ ChildWrite
    \/ \E wrote_pdf \in BOOLEAN : ChildExit(wrote_pdf)
    \/ ParentRead
    \/ ParentReadEof
    \/ \E output \in 0..MaxOutput : ParentWait(output)
    \/ FinishConversion

SpecPdf == InitPdf /\ [][NextPdf]_vars

(***************************************************************************)
(* Properties                                                              *)
(***************************************************************************)
Called == op = "get_latex_code"
Compiled == Called /\ result = "ok"
CurrentSeries == Series(objs, plot_data)

\* scale*v for every value v of every series bound to the slot
ScaledValues(slot, scale, series) ==
    UNION { {scale * series[i].dx[k] : k \in 1..Len(series[i].dx)} :
              i \in {n \in 1..Len(series) : series[n].ax = slot} }
    \cup
    UNION { {scale * series[i].dy[k] : k \in 1..Len(series[i].dy)} :
              i \in {n \in 1..Len(series) : series[n].ay = slot} }
SetMin(S) == CHOOSE v \in S : \A w \in S : v <= w
SetMax(S) == CHOOSE v \in S : \A w \in S : w <= v
UnsetLimitsAtEntry(slot) ==
    entry_axes[slot].configured /\ entry_axes[slot].limits = NoLimits
GridWithoutTicks(axis_setup) ==
    axis_setup.configured /\ axis_setup.grid_major /\ ~axis_setup.tick_enable

\* C1: after a get_latex_code call that returned a document, every slot that
\* had an AxisSetup with unset limits at entry and has series bound to it
\* holds limits = (min, max) of scale*v over all values v of those series.
C1_LimitsAreMinMaxOfScaledValues ==
    Compiled =>
        \A slot \in Slots :
            LET S == ScaledValues(slot, entry_axes[slot].scale, CurrentSeries)
            IN (UnsetLimitsAtEntry(slot) /\ S # {}) =>
                   axes[slot].limits = <<SetMin(S), SetMax(S)>>

\* C2: a get_latex_code call on a figure with a configured axis that has
\* grid.major_enable and not tick.enable raises and returns no document,
\* whatever the other fields of the axis are.
C2_GridWithoutTicksRaises ==
    (Called /\ \E slot \in Slots : GridWithoutTicks(entry_axes[slot])) =>
        (result # "ok" /\ out = <<>>)

SeriesOnUnsetSlot ==
    \E i \in 1..Len(plot_data) :
        \/ ~entry_axes[CurrentSeries[i].ax].configured
        \/ ~entry_axes[CurrentSeries[i].ay].configured

\* C3: a get_latex_code call on a figure with a series whose x-slot or
\* y-slot is unset fails, returns no document, leaves the slot unset and
\* fails before any axis limits are modified.
C3_UnsetSlotFailsBeforeLimits ==
    (Called /\ SeriesOnUnsetSlot) =>
        (result = "AssertionError" /\ out = <<>> /\ axes = entry_axes)

\* C3 witness: the call failed on a series with an unset slot while a
\* configured axis had unset limits the resolver would otherwise have filled.
C3_Witness ==
    /\ Called /\ SeriesOnUnsetSlot
    /\ result = "AssertionError"
    /\ \E slot \in Slots : UnsetLimitsAtEntry(slot) /\ axes[slot].limits = NoLimits

\* C8: the entries of plot_data carry pairwise distinct identities.
C8_IdsPairwiseDistinct ==
    \A i, j \in 1..Len(plot_data) :
        i # j => CurrentSeries[i].id # CurrentSeries[j].id

\* C10: limits that are set when get_latex_code is called (by the caller or
\* by an earlier resolution) are the limits after the call.
C10_SetLimitsAreKept ==
    Called =>
        \A slot \in Slots :
            (entry_axes[slot].configured /\ entry_axes[slot].limits # NoLimits) =>
                axes[slot] = entry_axes[slot]

\* C10 witness: a call that returned a document on a figure one of whose axes
\* had limits from an earlier resolution that a fresh resolution over the
\* current series would not produce.
C10_Witness ==
    /\ Compiled
    /\ \E slot \in Slots :
          /\ entry_axes[slot].configured
          /\ entry_axes[slot].limits \notin {NoLimits, ExplicitLimits}
          /\ entry_axes[slot].limits # AutoLimits(slot, entry_axes[slot], CurrentSeries)
          /\ axes[slot].limits = entry_axes[slot].limits

(***************************************************************************)
(* Properties of the emitted document                                      *)
(***************************************************************************)
\* the value a formatted number denotes, when it is an integer
RECURSIVE DigitsValue(_, _, _)
DigitsValue(digits, e, i) ==
    IF i > e + 1 \/ i > Len(digits) THEN 0
    ELSE digits[i] * Pow10(e - (i - 1)) + DigitsValue(digits, e, i + 1)
Denotes(f, v) ==
    /\ \A i \in 1..Len(f.digits) : i > f.exp + 1 => f.digits[i] = 0
    /\ v = (IF f.neg THEN -1 ELSE 1) * DigitsValue(f.digits, f.exp, 1)
    /\ Len(f.digits) = FmtDigits + 1

ItemsOf(blk, kind) == {k \in 1..Len(out) : out[k].blk = blk /\ out[k].kind = kind}
PairItems(kind, ax, ay) ==
    {k \in ItemsOf("plot_group", kind) : out[k].ax = ax /\ out[k].ay = ay}
BoundTo(ax, ay) ==
    SelectSeq(CurrentSeries, LAMBDA data : data.ax = ax /\ data.ay = ay)
PlotsOf(ax, ay) ==
    SelectSeq(out, LAMBDA it : /\ it.blk = "plot_group" /\ it.kind = "addplot"
                               /\ it.ax = ax /\ it.ay = ay)
XSlots == {XAxis[i] : i \in 1..Len(XAxis)}
YSlots == {YAxis[i] : i \in 1..Len(YAxis)}
UsedPairs == {pair \in XSlots \X YSlots : Len(BoundTo(pair[1], pair[2])) > 0}

C5_PlotInsetsHoldTheSeries ==
    Compiled =>
        /\ Cardinality(ItemsOf("plot_group", "addplot")) = Len(plot_data)
        /\ \A ax \in XSlots, ay \in YSlots :
              LET bound == BoundTo(ax, ay)
                  plots == PlotsOf(ax, ay)
                  insets == IF Len(bound) > 0 THEN 1 ELSE 0
              IN /\ Cardinality(PairItems("begin", ax, ay)) = insets
                 /\ Cardinality(PairItems("end", ax, ay)) = insets
                 /\ \A k \in PairItems("addplot", ax, ay) :
                       /\ \E b \in PairItems("begin", ax, ay) : b < k
                       /\ \E e \in PairItems("end", ax, ay) : k < e
                 /\ Len(plots) = Len(bound)
                 /\ \A n \in 1..Len(plots) :
                       /\ plots[n].label = bound[n].id
                       /\ Len(plots[n].rows) = Len(bound[n].dx)
                       /\ \A r \in 1..Len(plots[n].rows) :
                             /\ Denotes(plots[n].rows[r][1], bound[n].dx[r])
                             /\ Denotes(plots[n].rows[r][2], bound[n].dy[r])

\* C5 witness: a compiled figure with two series in one pair, a series in
\* another pair and a pair without series.
C5_Witness ==
    /\ Compiled
    /\ \E p \in UsedPairs : Len(BoundTo(p[1], p[2])) = 2
    /\ Cardinality(UsedPairs) = 2
    /\ Cardinality(ItemsOf("plot_group", "begin")) = 2
    /\ Cardinality(ItemsOf("plot_group", "addplot")) = 3

Tag(it) == IF it.blk = "plot_group" THEN <<it.blk, it.ax, it.ay>> ELSE <<it.blk>>
ExpectedBlocks ==
    << <<"doc_begin">>, <<"padding">>, <<"background">>,
       <<"plot_group", "t", "l">>, <<"plot_group", "t", "r">>,
       <<"plot_group", "b", "l">>, <<"plot_group", "b", "r">>,
       <<"overlay">> >>
    \o (IF legend_enable THEN << <<"legend">> >> ELSE <<>>)
    \o << <<"doc_end">> >>

\* C6: the blocks of the document are, in this order and each once: header,
\* padding, background, the plot groups t/l, t/r, b/l, b/r, overlay, the
\* legend if enabled, footer; every item lies within its block.
C6_BlockOrder ==
    Compiled =>
        LET heads == SelectSeq(out, LAMBDA it : it.kind = "head")
        IN /\ [i \in 1..Len(heads) |-> Tag(heads[i])] = ExpectedBlocks
           /\ out[1].kind = "head"
           /\ \A k \in 2..Len(out) :
                 out[k].kind # "head" => Tag(out[k]) = Tag(out[k - 1])
           /\ Tag(out[Len(out)]) = <<"doc_end">>

\* C6 witness: a compiled figure with the legend enabled and series in two pairs.
C6_Witness ==
    /\ Compiled /\ legend_enable
    /\ Cardinality(UsedPairs) = 2
    /\ ItemsOf("legend", "entry") # {}

AxisItems(layer, slot) == {k \in ItemsOf(layer, "axis") : out[k].axis = slot}

\* C7: in the document of a valid figure the padding, background and overlay
\* layers each hold one inset per slot that has an AxisSetup and none for an
\* unset slot; the background fill is attached to exactly one inset; with
\* series on all four pairs the background layer holds 4 insets.
C7_LayersDecorateConfiguredSlots ==
    Compiled =>
        /\ \A layer \in {"padding", "background", "overlay"} : \A slot \in Slots :
              Cardinality(AxisItems(layer, slot)) = (IF axes[slot].configured THEN 1 ELSE 0)
        /\ (\E slot \in Slots : axes[slot].configured) =>
              Cardinality({k \in ItemsOf("background", "axis") : out[k].fill}) = 1
        /\ Cardinality(UsedPairs) = 4 =>
              Cardinality(ItemsOf("background", "axis")) = 4

\* C7 witness: a compiled figure with series on all four pairs.
C7_Witness ==
    /\ Compiled
    /\ Cardinality(UsedPairs) = 4
    /\ Cardinality(ItemsOf("background", "axis")) = 4

\* C9: the legend block is in the document iff the legend is enabled, and
\* then holds one entry per list entry, in insertion order, each referencing
\* the label of exactly one plot of the document.
C9_LegendEntriesResolve ==
    Compiled =>
        /\ (ItemsOf("legend", "head") # {}) <=> legend_enable
        /\ legend_enable =>
              LET entries == SelectSeq(out, LAMBDA it : it.blk = "legend" /\ it.kind = "entry")
              IN /\ Len(entries) = Len(plot_data)
                 /\ \A n \in 1..Len(entries) :
                       /\ entries[n].ref = CurrentSeries[n].id
                       /\ Cardinality({k \in ItemsOf("plot_group", "addplot") :
                                         out[k].label = entries[n].ref}) = 1

(***************************************************************************)
(* Properties of a get_latex_code call as a whole                          *)
(***************************************************************************)
\* C11: a get_latex_code call leaves every field of the figure, of its
\* AxisSetups (limits included) and of its series unchanged.
C11_CallIsReadOnly ==
    [][op' = "get_latex_code" =>
          UNCHANGED <<axes, objs, plot_data, data_counter, legend_enable>>]_vars

EmptySeries == \E i \in 1..Len(plot_data) :
    Len(CurrentSeries[i].dx) = 0 \/ Len(CurrentSeries[i].dy) = 0

\* C15: every Data object has len(dx) = len(dy) (constructing one with
\* unequal lengths fails); a get_latex_code call on a figure with a series
\* whose dx or dy is empty fails and returns no document; every plot of a
\* returned document has at least one row, one per element of dx and of dy.
C15_SeriesNonEmptyEqualLength ==
    /\ \A ref \in 1..Len(objs) : Len(objs[ref].dx) = Len(objs[ref].dy)
    /\ (Called /\ EmptySeries) => (result = "AssertionError" /\ out = <<>>)
    /\ Compiled =>
          /\ \A i \in 1..Len(plot_data) : Len(CurrentSeries[i].dx) >= 1
          /\ \A k \in ItemsOf("plot_group", "addplot") : Len(out[k].rows) >= 1

\* C15 witness: a call that failed on a figure that holds one series, whose
\* only defect is that its sequences are empty (its slots are configured).
C15_Witness ==
    /\ Called /\ EmptySeries
    /\ result = "AssertionError"
    /\ \A i \in 1..Len(plot_data) :
          entry_axes[CurrentSeries[i].ax].configured /\ entry_axes[CurrentSeries[i].ay].configured
    /\ data_counter = 1

\* a slot that no series of the figure references, as x-slot or as y-slot
Unreferenced(slot) ==
    \A i \in 1..Len(plot_data) : CurrentSeries[i].ax # slot /\ CurrentSeries[i].ay # slot
AxisWithoutData(slot) == UnsetLimitsAtEntry(slot) /\ Unreferenced(slot)
\* the figure passes every check of _validate
PassesChecks ==
    /\ \A i \in 1..Len(plot_data) : DataOk(entry_axes, CurrentSeries[i])
    /\ \A slot \in Slots : ~(UnsetLimitsAtEntry(slot) /\ GridWithoutTicks(entry_axes[slot]))

\* C16 (as the code has it): a configured slot with unset limits that no
\* series references does not make get_latex_code fail: the call returns a
\* document whenever the figure passes the checks of validation, and then
\* the slot holds the limits (sys.float_info.max, -sys.float_info.min) and
\* the document holds its padding, background and overlay insets.
C16_AxisWithoutDataIsAccepted ==
    (Called /\ \E slot \in Slots : AxisWithoutData(slot)) =>
        /\ PassesChecks => Compiled
        /\ Compiled =>
              \A slot \in Slots : AxisWithoutData(slot) =>
                  /\ axes[slot].limits = <<FloatMax, NegFloatMin>>
                  /\ \A layer \in {"padding", "background", "overlay"} :
                        AxisItems(layer, slot) # {}

\* C16 witness: a document returned for a figure with series on (b, l) and a
\* configured slot t that no series references.
C16_Witness ==
    /\ Compiled
    /\ Len(plot_data) > 0
    /\ \A i \in 1..Len(plot_data) : CurrentSeries[i].ax = "b" /\ CurrentSeries[i].ay = "l"
    /\ AxisWithoutData("t")
    /\ axes["t"].limits = <<FloatMax, NegFloatMin>>

\* C16 (as stated): a configured slot with unset limits that no series
\* references makes get_latex_code fail; no limits are assigned to it and
\* no document is returned.
C16_AxisWithoutDataFails ==
    (Called /\ \E slot \in Slots : AxisWithoutData(slot)) =>
        /\ result # "ok" /\ out = <<>>
        /\ \A slot \in Slots : AxisWithoutData(slot) => axes[slot].limits = NoLimits

\* C18: a get_latex_code call that follows a failed get_latex_code call, with
\* no caller operation in between, fails with the same error and returns no
\* document.
C18_FailuresRepeat ==
    [][(Called /\ result # "ok" /\ op' = "get_latex_code") =>
          (result' = result /\ out' = <<>>)]_vars

(***************************************************************************)
(* Properties of the restriction domain.  Formatted numbers are compared   *)
(* as the decimal numbers their text denotes.                              *)
(***************************************************************************)
\* -1, 0, 1: the sign of the number a formatted text denotes
FmtSign(f) == IF \A i \in 1..Len(f.digits) : f.digits[i] = 0 THEN 0
              ELSE IF f.neg THEN -1 ELSE 1
DigitsLeq(d, g) ==
    \/ d = g
    \/ \E i \in 1..Len(d) : d[i] < g[i] /\ \A j \in 1..(i - 1) : d[j] = g[j]
\* |f| <= |g| for texts of nonzero numbers (one nonzero digit before the point)
MagLeq(f, g) == f.exp < g.exp \/ (f.exp = g.exp /\ DigitsLeq(f.digits, g.digits))
FmtLeq(f, g) ==
    \/ FmtSign(f) < FmtSign(g)
    \/ /\ FmtSign(f) = FmtSign(g)
       /\ \/ FmtSign(f) = 0
          \/ FmtSign(f) = 1 /\ MagLeq(f, g)
          \/ FmtSign(f) = -1 /\ MagLeq(g, f)
\* the text denotes v * 10^e
DenotesScaled(f, v, e) ==
    LET unscaled == [f EXCEPT !.exp = IF v = 0 THEN @ ELSE @ - e]
    IN unscaled.exp \in 0..FmtDigits /\ Denotes(unscaled, v)

\* C17: in a returned document, every plot on a non-logarithmic y-axis with
\* limits (lo, hi) carries the restriction domain mn:mx with mn = lo/K if
\* lo > 0 else lo*K and mx = hi*K if hi > 0 else hi/K, K = 10^OverscaleExp,
\* so that mn <= lo and hi <= mx; the ymin / ymax of its inset denote lo and
\* hi; a plot on a logarithmic y-axis carries no restriction domain.
C17_DomainWidensExactLimits ==
    Compiled =>
        \A k \in ItemsOf("plot_group", "addplot") :
            LET asy == axes[out[k].ay]
                lo == asy.limits[1]
                hi == asy.limits[2]
                inset == CHOOSE b \in PairItems("begin", out[k].ax, out[k].ay) : TRUE
            IN /\ PairItems("begin", out[k].ax, out[k].ay) # {}
               /\ Denotes(out[inset].ymin, lo)
               /\ Denotes(out[inset].ymax, hi)
               /\ IF asy.log THEN out[k].domain = NoDomain
                  ELSE /\ Len(out[k].domain) = 2
                       /\ FmtLeq(out[k].domain[1], out[inset].ymin)
                       /\ FmtLeq(out[inset].ymax, out[k].domain[2])
                       /\ DenotesScaled(out[k].domain[1], lo,
                                        IF lo > 0 THEN -OverscaleExp ELSE OverscaleExp)
                       /\ DenotesScaled(out[k].domain[2], hi,
                                        IF hi > 0 THEN OverscaleExp ELSE -OverscaleExp)

\* C17 witness: a returned document with a plot on a non-logarithmic y-axis
\* whose limits are lo < 0 < hi, with its restriction domain.
C17_Witness ==
    /\ Compiled
    /\ \E k \in ItemsOf("plot_group", "addplot") :
          /\ ~axes[out[k].ay].log
          /\ axes[out[k].ay].limits[1] < 0
          /\ axes[out[k].ay].limits[2] > 0
          /\ out[k].domain # NoDomain

(***************************************************************************)
(* Properties of the default setups                                        *)
(***************************************************************************)
\* the configuration an AxisSetup / a Figure sees through its references
SeenByAxisSetup(a) ==
    [grid_major_enable |-> cfg_objs[axis_setups[a].grid].enable,
     tick_enable |-> cfg_objs[axis_setups[a].tick].enable]
SeenByFigure(f) == [legend_enable |-> cfg_objs[figures[f].legend_setup].enable]

\* C14: an assignment to a field of the grid or tick setup of one AxisSetup,
\* or of the legend setup of one Figure, changes the configuration seen by
\* no other AxisSetup and no other Figure: at most one of them sees a change.
C14_DefaultsAreNotShared ==
    [][op' = "set_enable" =>
          /\ Cardinality({a \in 1..Len(axis_setups) :
                             SeenByAxisSetup(a)' # SeenByAxisSetup(a)}) <= 1
          /\ Cardinality({f \in 1..Len(figures) :
                             SeenByFigure(f)' # SeenByFigure(f)}) <= 1]_vars

(***************************************************************************)
(* Properties of Figure.export                                             *)
(***************************************************************************)
Exported == op = "export" /\ result = "ok"

\* C12: after an export call that returned, the artifact of each type
\* (.tex, .pdf, .svg) exists iff the type is among the requested types, and
\* the returned tuple holds the paths of the requested types in their order.
C12_ArtifactsIffRequested ==
    Exported =>
        /\ \A t \in TypeSet(ExportTypes) :
              TypeMap(t) \in files <=> t \in TypeSet(export_types)
        /\ export_ret = [i \in 1..Len(export_types) |-> TypeMap(export_types[i])]

\* C13: an export call that fails leaves nothing it wrote: no .tex, .pdf,
\* .svg or temporary svg that was not there before the call, and no
\* temporary working directory.
C13_FailedExportLeavesNothing ==
    [][(op' = "export" /\ result' # "ok") =>
          (files' \subseteq files /\ TmpDir \notin files')]_vars

(***************************************************************************)
(* Properties of the PDF conversion                                        *)
(***************************************************************************)
\* C19: the conversion is never stuck: until it has ended, by copying the PDF
\* or by raising, the parent or the compiler can take a step, in quiet and
\* in non-quiet mode and for any amount of compiler output.
C19_ConversionNeverStuck ==
    \/ conv.pc = "done" /\ conv.result \in {"ok", "RuntimeError", "FileNotFoundError"}
    \/ ENABLED NextPdf

====
